---- MODULE Spec2Model ----
(***************************************************************************)
(* State machine of the call-id signaling server with pre-START buffering  *)
(* (src/unnamed/part_000, lines 249-500): rooms, the Active Call of a      *)
(* room, the Pending queue and the ring resend timers.  Every handler is   *)
(* a function from the state and its frame to st = [rooms, rt, o]: the     *)
(* rooms Map and the ringTimers Map it leaves, and the send() calls it     *)
(* makes, in call order.  An action is a handler applied to the state.     *)
(***************************************************************************)
EXTENDS Integers, Sequences, FiniteSets, TLC

\* ------------------------------------------------------------ input sets
\* The WebSocket objects the server may be handed.
Conns == {"a", "b", "c"}
\* JavaScript null / undefined (an absent field of a frame, a null meta field).
Null == "null"
\* msg.room and msg.name of a join frame; Null is an absent or empty field.
RoomInputs == {"r1", Null}
NameInputs == {"alice", Null}
\* The offer, answer and ice frames a client sends: <<type, msg.sdp or msg.candidate>>.
SigInputs == {<<"offer", "s1">>, <<"answer", "s2">>, <<"ice", "c1">>}
SigTypes == {"offer", "answer", "ice"}

\* The clients of one run: the sockets that connect, the room keys and names
\* their join frames carry, the offer/answer/ice frames they send, and whether
\* a ring resend timeout (RING_RETRY_MS) elapses before the next frame arrives.
Env(conns, roomKeys, names, sigs, timers) ==
    [conns |-> conns, rooms |-> roomKeys, names |-> names, sigs |-> sigs, timers |-> timers]

Envs ==
    { Env({"a", "b"}, {"r1"}, {"alice"}, SigInputs, FALSE),
      Env({"a", "b", "c"}, {"r1"}, {"alice"}, {<<"offer", "s1">>}, FALSE),
      Env({"a", "b"}, RoomInputs, {"alice"}, {}, TRUE),
      Env({"a", "b", "c"}, {"r1"}, NameInputs, {}, FALSE) }

\* ---------------------------------------------------------------- bounds
\* Calls created in one run (call ids are 1..MaxCalls).
MaxCalls == 2
\* Frames buffered on one Pending queue.
MaxPending == 2

\* ------------------------------------------------------ program constants
RING_RETRY_MAX == 6

\* call_id of "no call": the activeCall slot holding null, or a frame whose
\* call_id field is absent or names no call this server ever created.
NoId == 0

VARIABLES
    readyState,  \* ws.readyState: "NONE" (not yet accepted), "OPEN", "CLOSING", "CLOSED"
    meta,        \* ws.meta: [room, name]
    isAlive,     \* ws.isAlive
    rooms,       \* the rooms Map: room key -> [members, activeCall]
    ringTimers,  \* the ringTimers Map: call id -> [tries, timer, roomKey]
    nextId,      \* the next call id randomUUID() returns
    env,         \* what the clients of this run do (fixed in the initial state)
    ended,       \* history: ids of the calls clearActiveCall has ended
    startSent,   \* history of the Active Calls: <<ws, id>> such that start{id} was written to ws
    resent,      \* history of the armed calls: id -> ring frames the resend timer has sent
    stopped,     \* history of the Active Calls: ids for which ring-ack or accept passed its guard
    sa_readyState,   \* set-active server (part_000:1-221): ws.readyState
    sa_meta,         \* set-active server: ws.meta = [room, name, active]
    sa_rooms,        \* set-active server: the rooms Map, room -> Set of sockets
    sa_closeReason,  \* set-active server: the reason of the close(1000, reason) a socket got
    sa_isAlive       \* set-active server: ws.isAlive

\* The state of the call-id server and the state of the set-active server.
cidVars == <<readyState, meta, isAlive, rooms, ringTimers, nextId, env,
             ended, startSent, resent, stopped>>
saVars == <<sa_readyState, sa_meta, sa_rooms, sa_closeReason, sa_isAlive>>
vars == <<cidVars, saVars>>

\* ------------------------------------------------------- data structures
\* A Set in insertion order, as JavaScript iterates it.
SetAdd(s, x) == IF \E i \in DOMAIN s : s[i] = x THEN s ELSE Append(s, x)
SetDelete(s, x) == SelectSeq(s, LAMBDA y : y # x)
ToSet(s) == {s[i] : i \in DOMAIN s}

\* activeCall: null
NoCall == [id |-> NoId, caller |-> Null, callee |-> Null, started |-> FALSE,
           state |-> "NONE", pending |-> <<>>]

Ids == 1..MaxCalls

\* ---------------------------------------------------------------- helpers
\* getRoom(roomKey): the rooms Map after the lazy creation.
getRoom(rs, roomKey) ==
    IF roomKey \in DOMAIN rs THEN rs
    ELSE rs @@ (roomKey :> [members |-> <<>>, activeCall |-> NoCall])

\* send(ws, obj): the frame goes on the wire only when the socket is OPEN.
send(o, ws, obj) ==
    IF ws = Null THEN o
    ELSE Append(o, [to |-> ws, wrote |-> (readyState[ws] = "OPEN"), f |-> obj])

\* roomObj.members.forEach(ws => send(ws, obj))
sendEach(o, members, obj) ==
    o \o [i \in 1..Len(members) |->
            [to |-> members[i], wrote |-> (readyState[members[i]] = "OPEN"), f |-> obj]]

\* currentPeers(roomObj), reading the names from the meta map m.
currentPeers(ro, m) ==
    LET named == SelectSeq(ro.members, LAMBDA w : m[w].name # Null)
    IN  [i \in 1..Len(named) |-> m[named[i]].name]

\* otherPeer answering the caller whoever sends.
otherPeer_Caller(call, fromWs) == call.caller

\* otherPeer(call, fromWs)
otherPeer(call, fromWs) == IF fromWs = call.caller THEN call.callee ELSE call.caller

\* stopRingResend(callId) on the timer map rt.
stopRingResend(rt, callId) == [k \in DOMAIN rt \ {callId} |-> rt[k]]

\* scheduleRingResend(callId, roomKey) on the timer map rt; timer = TRUE is an
\* armed timeout that has not fired.
scheduleRingResend(rt, callId, roomKey) ==
    LET entry == IF callId \in DOMAIN rt THEN [rt[callId] EXCEPT !.timer = FALSE]
                 ELSE [tries |-> 0, timer |-> FALSE, roomKey |-> roomKey]
        set(e) == [k \in DOMAIN rt \cup {callId} |-> IF k = callId THEN e ELSE rt[k]]
    IN  IF entry.tries >= RING_RETRY_MAX THEN set(entry)
        ELSE set([entry EXCEPT !.tries = @ + 1, !.timer = TRUE])

\* A handler works on st = [rooms, rt, o]: the rooms Map, the ringTimers Map
\* and the send() calls made so far.
St0 == [rooms |-> rooms, rt |-> ringTimers, o |-> <<>>]

\* flushPending sending the buffered frames last first.
flushPending_Reversed(st, roomKey) ==
    LET call == st.rooms[roomKey].activeCall
        list == call.pending
        sent == [i \in 1..Len(list) |->
                   [to |-> list[Len(list) + 1 - i].to,
                    wrote |-> (readyState[list[Len(list) + 1 - i].to] = "OPEN"),
                    f |-> list[Len(list) + 1 - i].f]]
    IN  IF call.id = NoId \/ ~call.started THEN st
        ELSE [st EXCEPT !.rooms[roomKey].activeCall.pending = <<>>,
                        !.o = st.o \o sent]

\* flushPending(call) for the call of room roomKey.
flushPending(st, roomKey) ==
    LET call == st.rooms[roomKey].activeCall
        list == call.pending
        sent == [i \in 1..Len(list) |->
                   [to |-> list[i].to, wrote |-> (readyState[list[i].to] = "OPEN"),
                    f |-> list[i].f]]
    IN  IF call.id = NoId \/ ~call.started THEN st
        ELSE [st EXCEPT !.rooms[roomKey].activeCall.pending = <<>>,
                        !.o = st.o \o sent]

\* clearActiveCall telling only the two participants.
clearActiveCall_ParticipantsOnly(st, roomKey, reason) ==
    LET ro == st.rooms[roomKey]
        call == ro.activeCall
    IN  IF call.id = NoId THEN st
        ELSE [rooms |-> [st.rooms EXCEPT ![roomKey].activeCall = NoCall],
              rt |-> stopRingResend(st.rt, call.id),
              o |-> sendEach(st.o,
                             SelectSeq(ro.members,
                                       LAMBDA m : m = call.caller \/ m = call.callee),
                             [type |-> "end", call_id |-> call.id, reason |-> reason])]

\* The statements of clearActiveCall with the slot set to null before the
\* members are told.
clearActiveCallSteps_SlotFirst(st, roomKey, reason) ==
    LET ro == st.rooms[roomKey]
        call == ro.activeCall
        s1 == [st EXCEPT !.rt = stopRingResend(@, call.id)]
        s2 == [s1 EXCEPT !.rooms[roomKey].activeCall = NoCall]
        s3 == [s2 EXCEPT !.o = sendEach(@, ro.members,
                                        [type |-> "end", call_id |-> call.id,
                                         reason |-> reason])]
    IN  IF call.id = NoId THEN <<st>> ELSE <<s1, s2, s3>>

\* The statements of clearActiveCall(roomObj, reason) in order: the state after
\* stopRingResend, after the forEach that sends end, after call.pending = []
\* and after roomObj.activeCall = null.
clearActiveCallSteps(st, roomKey, reason) ==
    LET ro == st.rooms[roomKey]
        call == ro.activeCall
        s1 == [st EXCEPT !.rt = stopRingResend(@, call.id)]
        s2 == [s1 EXCEPT !.o = sendEach(@, ro.members,
                                        [type |-> "end", call_id |-> call.id,
                                         reason |-> reason])]
        s3 == [s2 EXCEPT !.rooms[roomKey].activeCall.pending = <<>>]
        s4 == [s3 EXCEPT !.rooms[roomKey].activeCall = NoCall]
    IN  IF call.id = NoId THEN <<st>> ELSE <<s1, s2, s3, s4>>

\* clearActiveCall(roomObj, reason)
clearActiveCall(st, roomKey, reason) ==
    LET steps == clearActiveCallSteps(st, roomKey, reason)
    IN  steps[Len(steps)]

\* leaveRoom keeping the room it has emptied.
leaveRoom_KeepEmpty(st, ws) ==
    LET roomKey == meta[ws].room
    IN  IF roomKey = Null THEN st
        ELSE IF roomKey \notin DOMAIN st.rooms THEN st
        ELSE LET st1 == [st EXCEPT !.rooms[roomKey].members = SetDelete(@, ws)]
                 call == st1.rooms[roomKey].activeCall
             IN  IF call.id # NoId /\ (ws = call.caller \/ ws = call.callee)
                 THEN clearActiveCall(st1, roomKey, "left")
                 ELSE st1

\* leaveRoom(ws)
leaveRoom(st, ws) ==
    LET roomKey == meta[ws].room
    IN  IF roomKey = Null THEN st
        ELSE IF roomKey \notin DOMAIN st.rooms THEN st
        ELSE LET st1 == [st EXCEPT !.rooms[roomKey].members = SetDelete(@, ws)]
                 call == st1.rooms[roomKey].activeCall
                 st2 == IF call.id # NoId /\ (ws = call.caller \/ ws = call.callee)
                        THEN clearActiveCall(st1, roomKey, "left")
                        ELSE st1
             IN  IF Len(st2.rooms[roomKey].members) = 0
                 THEN [st2 EXCEPT !.rooms = [k \in DOMAIN st2.rooms \ {roomKey} |-> st2.rooms[k]]]
                 ELSE st2

\* The room a non-join frame of ws is routed to: rooms.get(ws.meta.room).
Routed(ws) == meta[ws].room # Null /\ meta[ws].room \in DOMAIN rooms

\* activeCall of the room the frames of ws are routed to
CallOf(ws) == rooms[meta[ws].room].activeCall

\* The guard without the comparison of the ids.
Matches_AnyId(ws, id) == CallOf(ws).id # NoId

\* The guard of every call frame: if (!c || c.id !== msg.call_id) return;
Matches(ws, id) == CallOf(ws).id # NoId /\ CallOf(ws).id = id

\* ------------------------------------------------------------- handlers
\* ws.on('message'), t === 'join': the rooms Map, the send() calls and ws.meta
onJoin(ws, room, name) ==
    LET roomKey == IF room = Null THEN "default" ELSE room
        nm == IF name = Null THEN "peer" ELSE name
        m1 == [meta EXCEPT ![ws] = [room |-> roomKey, name |-> nm]]
        rs1 == getRoom(rooms, roomKey)
        rs2 == [rs1 EXCEPT ![roomKey].members = SetAdd(@, ws)]
    IN  [rooms |-> rs2, rt |-> ringTimers, meta |-> m1,
         o |-> send(<<>>, ws, [type |-> "room-state", room |-> roomKey,
                               peers |-> currentPeers(rs2[roomKey], m1)])]

\* ws.on('message'), any other type while rooms.get(ws.meta.room) is absent
notInRoom(ws) ==
    [St0 EXCEPT !.o = send(<<>>, ws, [type |-> "error", msg |-> "not in room"])]

\* invite without the check of the Active Call slot.
onInvite_NoBusy(ws, call_id) ==
    LET roomKey == meta[ws].room
        ro == rooms[roomKey]
        others == SelectSeq(ro.members, LAMBDA m : m # ws)
        callee == others[1]
        call == [id |-> call_id, caller |-> ws, callee |-> callee,
                 started |-> FALSE, state |-> "RINGING", pending |-> <<>>]
        o1 == send(<<>>, ws, [type |-> "invite-ok", call_id |-> call_id])
        o2 == send(o1, callee,
                   [type |-> "ring", call_id |-> call_id,
                    from |-> IF meta[ws].name # Null THEN meta[ws].name ELSE "peer"])
    IN  IF Len(others) = 0
        THEN [St0 EXCEPT !.o = send(<<>>, ws, [type |-> "busy", reason |-> "no-peer"])]
        ELSE [rooms |-> [rooms EXCEPT ![roomKey].activeCall = call],
              rt |-> scheduleRingResend(ringTimers, call_id, roomKey),
              o |-> o2]

\* invite ringing the callee before it answers the caller.
onInvite_RingFirst(ws, call_id) ==
    LET roomKey == meta[ws].room
        ro == rooms[roomKey]
        others == SelectSeq(ro.members, LAMBDA m : m # ws)
        callee == others[1]
        call == [id |-> call_id, caller |-> ws, callee |-> callee,
                 started |-> FALSE, state |-> "RINGING", pending |-> <<>>]
        o1 == send(<<>>, callee,
                   [type |-> "ring", call_id |-> call_id,
                    from |-> IF meta[ws].name # Null THEN meta[ws].name ELSE "peer"])
        o2 == send(o1, ws, [type |-> "invite-ok", call_id |-> call_id])
    IN  IF ro.activeCall.id # NoId
        THEN [St0 EXCEPT !.o = send(<<>>, ws, [type |-> "busy", reason |-> "call-active"])]
        ELSE IF Len(others) = 0
        THEN [St0 EXCEPT !.o = send(<<>>, ws, [type |-> "busy", reason |-> "no-peer"])]
        ELSE [rooms |-> [rooms EXCEPT ![roomKey].activeCall = call],
              rt |-> scheduleRingResend(ringTimers, call_id, roomKey),
              o |-> o2]

\* ws.on('message') past the join branch: st is what the branch of the frame
\* does, reached only when the room lookup succeeds.
inRoom(ws, st) == IF Routed(ws) THEN st ELSE notInRoom(ws)

\* ws.on('message'), t === 'invite'; call_id is what randomUUID() returns
onInvite(ws, call_id) ==
    LET roomKey == meta[ws].room
        ro == rooms[roomKey]
        others == SelectSeq(ro.members, LAMBDA m : m # ws)
        callee == others[1]
        call == [id |-> call_id, caller |-> ws, callee |-> callee,
                 started |-> FALSE, state |-> "RINGING", pending |-> <<>>]
        o1 == send(<<>>, ws, [type |-> "invite-ok", call_id |-> call_id])
        o2 == send(o1, callee,
                   [type |-> "ring", call_id |-> call_id,
                    from |-> IF meta[ws].name # Null THEN meta[ws].name ELSE "peer"])
    IN  IF ro.activeCall.id # NoId
        THEN [St0 EXCEPT !.o = send(<<>>, ws, [type |-> "busy", reason |-> "call-active"])]
        ELSE IF Len(others) = 0
        THEN [St0 EXCEPT !.o = send(<<>>, ws, [type |-> "busy", reason |-> "no-peer"])]
        ELSE [rooms |-> [rooms EXCEPT ![roomKey].activeCall = call],
              rt |-> scheduleRingResend(ringTimers, call_id, roomKey),
              o |-> o2]

\* ws.on('message'), t === 'ring-ack'
onRingAck(ws, id) ==
    LET c == CallOf(ws)
    IN  IF ~Matches(ws, id) THEN St0
        ELSE [St0 EXCEPT !.rt = stopRingResend(ringTimers, c.id),
                         !.o = send(<<>>, c.caller, [type |-> "ringing", call_id |-> c.id])]

\* accept without the flush of the Pending queue.
onAccept_NoFlush(ws, id) ==
    LET roomKey == meta[ws].room
        c == CallOf(ws)
        o1 == send(<<>>, c.caller, [type |-> "start", call_id |-> c.id, role |-> "initiator"])
        o2 == send(o1, c.callee, [type |-> "start", call_id |-> c.id, role |-> "callee"])
    IN  IF ~Matches(ws, id) THEN St0
        ELSE [rooms |-> [rooms EXCEPT ![roomKey].activeCall.state = "CONNECTING",
                                      ![roomKey].activeCall.started = TRUE],
              rt |-> stopRingResend(ringTimers, c.id),
              o |-> o2]

\* ws.on('message'), t === 'accept'
onAccept(ws, id) ==
    LET roomKey == meta[ws].room
        c == CallOf(ws)
        o1 == send(<<>>, c.caller, [type |-> "start", call_id |-> c.id, role |-> "initiator"])
        o2 == send(o1, c.callee, [type |-> "start", call_id |-> c.id, role |-> "callee"])
        st1 == [rooms |-> [rooms EXCEPT ![roomKey].activeCall.state = "CONNECTING",
                                        ![roomKey].activeCall.started = TRUE],
                rt |-> stopRingResend(ringTimers, c.id),
                o |-> o2]
    IN  IF ~Matches(ws, id) THEN St0 ELSE flushPending(st1, roomKey)

\* ws.on('message'), t === 'decline'
onDecline(ws, id) ==
    IF ~Matches(ws, id) THEN St0 ELSE clearActiveCall(St0, meta[ws].room, "declined")

\* ws.on('message'), t === 'hangup'
onHangup(ws, id) ==
    IF ~Matches(ws, id) THEN St0 ELSE clearActiveCall(St0, meta[ws].room, "hangup")

\* The normalised forward payload of an offer, answer or ice frame.
Forward(t, id, val) ==
    IF t = "ice" THEN [type |-> "ice", call_id |-> id, candidate |-> val]
    ELSE [type |-> t, call_id |-> id, sdp |-> val]

\* Signaling relayed at once, whether the call has started or not.
onSignal_Unbuffered(ws, t, id, val) ==
    LET c == CallOf(ws)
        to == otherPeer(c, ws)
    IN  IF ~Matches(ws, id) THEN St0
        ELSE IF to = Null THEN St0
        ELSE [St0 EXCEPT !.o = send(<<>>, to, Forward(t, c.id, val))]

\* ws.on('message'), t === 'offer' || t === 'answer' || t === 'ice'
onSignal(ws, t, id, val) ==
    LET roomKey == meta[ws].room
        c == CallOf(ws)
        to == otherPeer(c, ws)
        forward == Forward(t, c.id, val)
    IN  IF ~Matches(ws, id) THEN St0
        ELSE IF to = Null THEN St0
        ELSE IF c.started THEN [St0 EXCEPT !.o = send(<<>>, to, forward)]
        ELSE [St0 EXCEPT !.rooms[roomKey].activeCall.pending =
                             Append(@, [to |-> to, f |-> forward])]

\* ws.on('message'), t === 'leave-room'
onLeaveRoom(ws) == leaveRoom(St0, ws)

\* A frame of an unhandled type dropped without an answer.
onUnknown_Silent(ws) == St0

\* ws.on('message'), any other type
onUnknown(ws) ==
    [St0 EXCEPT !.o = send(<<>>, ws, [type |-> "error", msg |-> "unknown message type"])]

\* ws.on('close') and ws.on('error')
onClose(ws) == leaveRoom(St0, ws)

\* A timeout callback that ends the call with reason timeout once the resend
\* budget is used up.
ringTimeout_Timeout(callId) ==
    LET entry == ringTimers[callId]
        fired == [ringTimers EXCEPT ![callId].timer = FALSE]
        has == entry.roomKey \in DOMAIN rooms
        call == IF has THEN rooms[entry.roomKey].activeCall ELSE NoCall
        from == IF call.caller # Null /\ meta[call.caller].name # Null
                THEN meta[call.caller].name ELSE "peer"
    IN  IF ~has \/ call.id = NoId \/ call.id # callId \/ call.started
        THEN [St0 EXCEPT !.rt = fired]
        ELSE IF entry.tries >= RING_RETRY_MAX
        THEN clearActiveCall([St0 EXCEPT !.rt = fired], entry.roomKey, "timeout")
        ELSE [St0 EXCEPT !.rt = scheduleRingResend(fired, callId, entry.roomKey),
                         !.o = send(<<>>, call.callee,
                                    [type |-> "ring", call_id |-> call.id, from |-> from])]

\* The timeout callback armed by scheduleRingResend(callId, roomKey).
ringTimeout(callId) ==
    LET entry == ringTimers[callId]
        fired == [ringTimers EXCEPT ![callId].timer = FALSE]
        has == entry.roomKey \in DOMAIN rooms
        call == IF has THEN rooms[entry.roomKey].activeCall ELSE NoCall
        from == IF call.caller # Null /\ meta[call.caller].name # Null
                THEN meta[call.caller].name ELSE "peer"
    IN  IF ~has \/ call.id = NoId \/ call.id # callId \/ call.started
        THEN [St0 EXCEPT !.rt = fired]
        ELSE [St0 EXCEPT !.rt = scheduleRingResend(fired, callId, entry.roomKey),
                         !.o = send(<<>>, call.callee,
                                    [type |-> "ring", call_id |-> call.id, from |-> from])]

\* ---------------------------------------------------------------- history
ActiveIds(rs) == {rs[k].activeCall.id : k \in DOMAIN rs} \ {NoId}

\* The frames of o that reached the wire, as <<ws, type, call_id>>.
Wrote(o, type) ==
    {<<o[i].to, o[i].f.call_id>> : i \in {j \in DOMAIN o : o[j].f.type = type /\ o[j].wrote}}

\* A step leaves the rooms Map and the ringTimers Map of st; acked is the id a
\* ring-ack or accept was processed for and rang the id the timer re-sent ring for.
Commit(st, acked, rang) ==
    /\ UNCHANGED saVars
    /\ rooms' = st.rooms
    /\ ringTimers' = st.rt
    /\ ended' = ended \cup (ActiveIds(rooms) \ ActiveIds(st.rooms))
    /\ startSent' = {p \in startSent \cup Wrote(st.o, "start") : p[2] \in ActiveIds(st.rooms)}
    /\ stopped' = {i \in stopped \cup acked : i \in ActiveIds(st.rooms)}
    /\ resent' = [k \in DOMAIN st.rt |->
                    IF k \notin DOMAIN resent THEN 0
                    ELSE IF k \in rang THEN resent[k] + 1
                    ELSE resent[k]]

\* ------------------------------------------------------------------- Init
\* The call-id server after construction.
cidInit ==
    /\ readyState = [w \in Conns |-> "NONE"]
    /\ meta = [w \in Conns |-> [room |-> Null, name |-> Null]]
    /\ isAlive = [w \in Conns |-> FALSE]
    /\ rooms = <<>>
    /\ ringTimers = <<>>
    /\ nextId = 1
    /\ ended = {}
    /\ startSent = {}
    /\ resent = <<>>
    /\ stopped = {}

\* The set-active server after construction.
saInit ==
    /\ sa_readyState = [w \in Conns |-> "NONE"]
    /\ sa_meta = [w \in Conns |-> [room |-> Null, name |-> Null, active |-> FALSE]]
    /\ sa_rooms = <<>>
    /\ sa_closeReason = [w \in Conns |-> Null]
    /\ sa_isAlive = [w \in Conns |-> FALSE]

Init ==
    /\ cidInit
    /\ env \in Envs
    /\ saInit

\* ---------------------------------------------------------------- actions
\* A frame of a socket whose room lookup succeeds.
Frame(ws) == readyState[ws] = "OPEN" /\ Routed(ws)

\* wss.on('connection')
Connect(ws) ==
    /\ readyState[ws] = "NONE"
    /\ readyState' = [readyState EXCEPT ![ws] = "OPEN"]
    /\ meta' = [meta EXCEPT ![ws] = [room |-> Null, name |-> Null]]
    /\ isAlive' = [isAlive EXCEPT ![ws] = TRUE]
    /\ Commit(St0, {}, {})
    /\ UNCHANGED <<nextId, env>>

Join(ws, room, name) ==
    /\ readyState[ws] = "OPEN"
    /\ meta' = onJoin(ws, room, name).meta
    /\ Commit(onJoin(ws, room, name), {}, {})
    /\ UNCHANGED <<readyState, isAlive, nextId, env>>

NotInRoom(ws) ==
    /\ readyState[ws] = "OPEN"
    /\ ~Routed(ws)
    /\ Commit(notInRoom(ws), {}, {})
    /\ UNCHANGED <<readyState, meta, isAlive, nextId, env>>

\* JSON.parse throws: the frame is dropped.
BadJson(ws) ==
    /\ readyState[ws] = "OPEN"
    /\ Commit(St0, {}, {})
    /\ UNCHANGED <<readyState, meta, isAlive, nextId, env>>

Invite(ws) ==
    LET st == onInvite(ws, nextId)
        created == nextId \in ActiveIds(st.rooms)
    IN  /\ Frame(ws)
        /\ created => nextId <= MaxCalls
        /\ nextId' = IF created THEN nextId + 1 ELSE nextId
        /\ Commit(st, {}, {})
        /\ UNCHANGED <<readyState, meta, isAlive, env>>

RingAck(ws, id) ==
    /\ Frame(ws)
    /\ Commit(onRingAck(ws, id), IF Matches(ws, id) THEN {id} ELSE {}, {})
    /\ UNCHANGED <<readyState, meta, isAlive, nextId, env>>

Accept(ws, id) ==
    /\ Frame(ws)
    /\ Commit(onAccept(ws, id), IF Matches(ws, id) THEN {id} ELSE {}, {})
    /\ UNCHANGED <<readyState, meta, isAlive, nextId, env>>

Decline(ws, id) ==
    /\ Frame(ws)
    /\ Commit(onDecline(ws, id), {}, {})
    /\ UNCHANGED <<readyState, meta, isAlive, nextId, env>>

Hangup(ws, id) ==
    /\ Frame(ws)
    /\ Commit(onHangup(ws, id), {}, {})
    /\ UNCHANGED <<readyState, meta, isAlive, nextId, env>>

Signal(ws, t, id, val) ==
    /\ Frame(ws)
    /\ Len(onSignal(ws, t, id, val).rooms[meta[ws].room].activeCall.pending) <= MaxPending
    /\ Commit(onSignal(ws, t, id, val), {}, {})
    /\ UNCHANGED <<readyState, meta, isAlive, nextId, env>>

LeaveRoomMsg(ws) ==
    /\ Frame(ws)
    /\ Commit(onLeaveRoom(ws), {}, {})
    /\ UNCHANGED <<readyState, meta, isAlive, nextId, env>>

Unknown(ws) ==
    /\ Frame(ws)
    /\ Commit(onUnknown(ws), {}, {})
    /\ UNCHANGED <<readyState, meta, isAlive, nextId, env>>

\* The channel starts to close (close frame received, network failure,
\* terminate()): the socket leaves OPEN before its 'close' event is emitted.
ChannelClosing(ws) ==
    /\ readyState[ws] = "OPEN"
    /\ readyState' = [readyState EXCEPT ![ws] = "CLOSING"]
    /\ Commit(St0, {}, {})
    /\ UNCHANGED <<meta, isAlive, nextId, env>>

\* ws.on('error', () => leaveRoom(ws))
OnError(ws) ==
    /\ readyState[ws] \in {"OPEN", "CLOSING"}
    /\ readyState' = [readyState EXCEPT ![ws] = "CLOSING"]
    /\ Commit(onClose(ws), {}, {})
    /\ UNCHANGED <<meta, isAlive, nextId, env>>

\* Whether the rooms Map rs still refers to the socket: as a member, or as a
\* participant or a Pending destination of an Active Call.
Referenced(rs, ws) ==
    \E k \in DOMAIN rs :
        \/ ws \in ToSet(rs[k].members)
        \/ ws \in {rs[k].activeCall.caller, rs[k].activeCall.callee}

\* ws.on('close', () => leaveRoom(ws)).  A closed socket the rooms Map does not
\* refer to is garbage: no handler can read its fields again, and its name
\* stands for the next socket the server accepts.
OnClose(ws) ==
    LET st == onClose(ws)
        kept == Referenced(st.rooms, ws)
    IN  /\ readyState[ws] \in {"OPEN", "CLOSING"}
        /\ readyState' = [readyState EXCEPT ![ws] = IF kept THEN "CLOSED" ELSE "NONE"]
        /\ meta' = IF kept THEN meta ELSE [meta EXCEPT ![ws] = [room |-> Null, name |-> Null]]
        /\ isAlive' = IF kept THEN isAlive ELSE [isAlive EXCEPT ![ws] = FALSE]
        /\ Commit(st, {}, {})
        /\ UNCHANGED <<nextId, env>>

RingTimerFire(callId) ==
    /\ callId \in DOMAIN ringTimers
    /\ ringTimers[callId].timer
    /\ Commit(ringTimeout(callId), {}, IF ringTimeout(callId).o # <<>> THEN {callId} ELSE {})
    /\ UNCHANGED <<readyState, meta, isAlive, nextId, env>>

\* call_id of an incoming frame: absent or unknown, or an id the server gave out
IdInputs == 0..(nextId - 1)

Next ==
    \/ \E ws \in env.conns : Connect(ws)
    \/ \E ws \in env.conns, room \in env.rooms, name \in env.names : Join(ws, room, name)
    \/ \E ws \in env.conns : NotInRoom(ws)
    \/ \E ws \in env.conns : BadJson(ws)
    \/ \E ws \in env.conns : Invite(ws)
    \/ \E ws \in env.conns, id \in IdInputs : RingAck(ws, id)
    \/ \E ws \in env.conns, id \in IdInputs : Accept(ws, id)
    \/ \E ws \in env.conns, id \in IdInputs : Decline(ws, id)
    \/ \E ws \in env.conns, id \in IdInputs : Hangup(ws, id)
    \/ \E ws \in env.conns, sig \in env.sigs, id \in IdInputs : Signal(ws, sig[1], id, sig[2])
    \/ \E ws \in env.conns : LeaveRoomMsg(ws)
    \/ \E ws \in env.conns : Unknown(ws)
    \/ \E ws \in env.conns : ChannelClosing(ws)
    \/ \E ws \in env.conns : OnError(ws)
    \/ \E ws \in env.conns : OnClose(ws)
    \/ \E id \in Ids : env.timers /\ RingTimerFire(id)

Spec == Init /\ [][Next]_vars

\* ------------------------------------------------ call-id server: heartbeat
\* wss.clients: the sockets accepted and not yet closed.
Clients == {w \in Conns : readyState[w] \in {"OPEN", "CLOSING"}}

\* The heartbeat interval, wss.clients.forEach: a client whose isAlive is
\* false is terminated (its 'close' event follows), any other has isAlive
\* cleared and is pinged.  The result is [rs, alive, pinged].
heartbeat ==
    [rs |-> [w \in Conns |->
                IF w \in Clients /\ ~isAlive[w] THEN "CLOSING" ELSE readyState[w]],
     alive |-> [w \in Conns |-> IF w \in Clients THEN FALSE ELSE isAlive[w]],
     pinged |-> {w \in Clients : isAlive[w]}]

\* setInterval(() => { wss.clients.forEach(...) }, 30000)
Heartbeat ==
    /\ Clients # {}
    /\ readyState' = heartbeat.rs
    /\ isAlive' = heartbeat.alive
    /\ Commit(St0, {}, {})
    /\ UNCHANGED <<meta, nextId, env>>

\* ws.on('pong', () => ws.isAlive = true)
Pong(ws) ==
    /\ readyState[ws] = "OPEN"
    /\ isAlive' = [isAlive EXCEPT ![ws] = TRUE]
    /\ Commit(St0, {}, {})
    /\ UNCHANGED <<readyState, meta, nextId, env>>

\* The clients of a run under the heartbeat: two sockets, two rooms.
HbEnvs == { Env({"a", "b"}, RoomInputs, {"alice"}, {}, FALSE) }

HbInit == cidInit /\ env \in HbEnvs /\ saInit

HbNext ==
    \/ \E ws \in env.conns : Connect(ws)
    \/ \E ws \in env.conns, room \in env.rooms, name \in env.names : Join(ws, room, name)
    \/ \E ws \in env.conns : NotInRoom(ws)
    \/ \E ws \in env.conns : Invite(ws)
    \/ \E ws \in env.conns, id \in IdInputs : RingAck(ws, id)
    \/ \E ws \in env.conns, id \in IdInputs : Accept(ws, id)
    \/ \E ws \in env.conns, id \in IdInputs : Decline(ws, id)
    \/ \E ws \in env.conns, id \in IdInputs : Hangup(ws, id)
    \/ \E ws \in env.conns : LeaveRoomMsg(ws)
    \/ \E ws \in env.conns : ChannelClosing(ws)
    \/ \E ws \in env.conns : OnError(ws)
    \/ \E ws \in env.conns : OnClose(ws)
    \/ \E ws \in env.conns : Pong(ws)
    \/ Heartbeat

SpecHB == HbInit /\ [][HbNext]_vars

\* ===================================================== set-active server
\* The server of src/unnamed/part_000, lines 1-221: rooms of sockets with an
\* "active" flag, kickSameName on join, peer-joined and peer-left broadcasts.
\* A handler works on S = [rooms, meta, rs, why, alive, o]: the rooms Map, the
\* meta, readyState, close reason and isAlive of every socket, and the frames
\* written so far.
MAX_PEERS == 2

\* The frames a client of the set-active server relays.
SaSigInputs == {<<"offer", "s1">>}
SaRingTypes == {"ring", "ring-accept", "ring-cancel"}

sa_S0 ==
    [rooms |-> sa_rooms, meta |-> sa_meta, rs |-> sa_readyState,
     why |-> sa_closeReason, alive |-> sa_isAlive, o |-> <<>>]

\* !x for a room key: null and '' are falsy.
sa_Falsy(x) == x = Null \/ x = ""

\* rooms.get(room) || new Set()
sa_roomSet(S, room) == IF room \in DOMAIN S.rooms THEN S.rooms[room] ELSE <<>>

\* getRoomSet(room): the rooms Map after the lazy creation.
sa_getRoomSet(S, room) ==
    IF room \in DOMAIN S.rooms THEN S ELSE [S EXCEPT !.rooms = @ @@ (room :> <<>>)]

\* activeCount(room)
sa_activeCount(S, room) ==
    Cardinality({w \in ToSet(sa_roomSet(S, room)) : S.meta[w].active})

\* ws.send(JSON.stringify(obj))
sa_wsSend(S, ws, obj) == [S EXCEPT !.o = Append(@, [to |-> ws, f |-> obj])]

\* broadcast(room, sender, obj)
sa_broadcast(S, room, sender, obj) ==
    LET dest == SelectSeq(sa_roomSet(S, room),
                          LAMBDA w : w # sender /\ S.rs[w] = "OPEN")
    IN  [S EXCEPT !.o = @ \o [i \in 1..Len(dest) |-> [to |-> dest[i], f |-> obj]]]

\* kickSameName(room, name, except)
sa_kickSameName(S, room, name, except) ==
    IF room \notin DOMAIN S.rooms THEN S
    ELSE LET kicked == {p \in ToSet(S.rooms[room]) :
                            p # except /\ S.meta[p].name = name}
             closed == {p \in kicked : S.rs[p] = "OPEN"}
         IN  [S EXCEPT !.rs = [w \in Conns |-> IF w \in closed THEN "CLOSING" ELSE S.rs[w]],
                       !.why = [w \in Conns |-> IF w \in closed THEN "replaced" ELSE S.why[w]],
                       !.rooms[room] = SelectSeq(@, LAMBDA p : p \notin kicked)]

\* joinRoom(ws, room, name)
sa_joinRoom(S, ws, room, name) ==
    LET S1 == sa_getRoomSet(S, room)
        S2 == [S1 EXCEPT !.rooms[room] = SelectSeq(@, LAMBDA p : S1.rs[p] = "OPEN")]
        S3 == sa_kickSameName(S2, room, name, ws)
        S4 == [S3 EXCEPT !.meta[ws] = [room |-> room, name |-> name, active |-> FALSE],
                         !.rooms[room] = SetAdd(@, ws)]
        named == SelectSeq(S4.rooms[room], LAMBDA x : S4.meta[x].name # Null)
        names == [i \in 1..Len(named) |-> S4.meta[named[i]].name]
        S5 == sa_wsSend(S4, ws, [type |-> "room-state", room |-> room, peers |-> names,
                                 activeCount |-> sa_activeCount(S4, room)])
    IN  sa_broadcast(S5, room, ws, [type |-> "peer-joined", name |-> name])

\* leaveRoom(ws)
sa_leaveRoom(S, ws) ==
    LET r == S.meta[ws].room
        S1 == [S EXCEPT !.meta[ws].active = FALSE]
        S2 == IF r \notin DOMAIN S1.rooms THEN S1
              ELSE IF Len(SetDelete(S1.rooms[r], ws)) = 0
              THEN [S1 EXCEPT !.rooms = [k \in DOMAIN S1.rooms \ {r} |-> S1.rooms[k]]]
              ELSE [S1 EXCEPT !.rooms[r] = SetDelete(@, ws)]
        S3 == [S2 EXCEPT !.meta[ws].room = Null, !.meta[ws].name = Null]
    IN  IF sa_Falsy(r) THEN S
        ELSE sa_broadcast(S3, r, ws, [type |-> "peer-left", name |-> S.meta[ws].name])

\* setActive(ws, wantActive): the state and the result {ok, reason, active}
sa_setActive(S, ws, wantActive) ==
    LET r == S.meta[ws].room
        current == S.meta[ws].active
    IN  IF sa_Falsy(r) THEN [S |-> S, ok |-> FALSE, reason |-> "not-in-room", active |-> FALSE]
        ELSE IF wantActive = current
        THEN [S |-> S, ok |-> TRUE, reason |-> Null, active |-> current]
        ELSE IF wantActive /\ sa_activeCount(S, r) >= MAX_PEERS
        THEN [S |-> S, ok |-> FALSE, reason |-> "room-full", active |-> FALSE]
        ELSE [S |-> [S EXCEPT !.meta[ws].active = wantActive],
              ok |-> TRUE, reason |-> Null, active |-> wantActive]

\* ws.on('message'), t === 'join'
sa_onJoin(ws, room, name) ==
    sa_joinRoom(sa_S0, ws, IF room = Null THEN "" ELSE room,
                IF name = Null THEN "peer" ELSE name)

\* ws.on('message'), if (!ws.meta.room): only leave-room is answered
sa_onNoRoom(ws, t) ==
    IF t = "leave-room" THEN sa_wsSend(sa_S0, ws, [type |-> "left"]) ELSE sa_S0

\* ws.on('message'), t === 'set-active'
sa_onSetActive(ws, want) ==
    LET res == sa_setActive(sa_S0, ws, want)
    IN  IF ~res.ok /\ res.reason = "room-full"
        THEN sa_wsSend(res.S, ws, [type |-> "room-full", room |-> sa_meta[ws].room])
        ELSE sa_wsSend(res.S, ws, [type |-> "active", active |-> res.active])

\* ws.on('message'), t === 'offer' || t === 'answer' || t === 'ice'
sa_onSignal(ws, t, val) ==
    LET res == sa_setActive(sa_S0, ws, TRUE)
        msg == [type |-> t, val |-> val]
    IN  IF sa_meta[ws].active THEN sa_broadcast(sa_S0, sa_meta[ws].room, ws, msg)
        ELSE IF ~res.ok /\ res.reason = "room-full"
        THEN sa_wsSend(res.S, ws, [type |-> "room-full", room |-> sa_meta[ws].room])
        ELSE sa_broadcast(sa_wsSend(res.S, ws, [type |-> "active", active |-> TRUE]),
                          sa_meta[ws].room, ws, msg)

\* ws.on('message'), t === 'ring' || t === 'ring-accept' || t === 'ring-cancel'
sa_onRing(ws, t) ==
    sa_broadcast(sa_S0, sa_meta[ws].room, ws,
                 [type |-> t, room |-> sa_meta[ws].room, from |-> sa_meta[ws].name,
                  name |-> sa_meta[ws].name])

\* ws.on('message'), t === 'hangup'
sa_onHangup(ws) ==
    LET S1 == sa_setActive(sa_S0, ws, FALSE).S
        S2 == sa_broadcast(S1, sa_meta[ws].room, ws,
                           [type |-> "hangup", room |-> sa_meta[ws].room,
                            from |-> sa_meta[ws].name, name |-> sa_meta[ws].name])
    IN  sa_wsSend(S2, ws, [type |-> "active", active |-> FALSE])

\* ws.on('message'), t === 'leave-room'
sa_onLeaveRoom(ws) == sa_wsSend(sa_leaveRoom(sa_S0, ws), ws, [type |-> "left"])

\* ws.on('close') and ws.on('error')
sa_onClose(ws) == sa_leaveRoom(sa_S0, ws)

\* The heartbeat interval: wss.clients.forEach, for the clients cs in order.
RECURSIVE sa_heartbeat(_, _)
sa_heartbeat(S, cs) ==
    IF cs = <<>> THEN S
    ELSE LET ws == Head(cs)
             S1 == IF S.alive[ws]
                   THEN [S EXCEPT !.alive[ws] = FALSE]
                   ELSE sa_leaveRoom([S EXCEPT !.rs[ws] = "CLOSING"], ws)
         IN  sa_heartbeat(S1, Tail(cs))

\* --------------------------------------------- set-active server: actions
\* A step leaves the state of S.  A closed socket no room refers to is
\* garbage: its name stands for the next socket the server accepts.
SaCommit(S) ==
    LET gone(w) == /\ S.rs[w] = "CLOSED"
                   /\ \A k \in DOMAIN S.rooms : w \notin ToSet(S.rooms[k])
    IN  /\ sa_rooms' = S.rooms
        /\ sa_readyState' = [w \in Conns |-> IF gone(w) THEN "NONE" ELSE S.rs[w]]
        /\ sa_meta' = [w \in Conns |->
                         IF gone(w) THEN [room |-> Null, name |-> Null, active |-> FALSE]
                         ELSE S.meta[w]]
        /\ sa_closeReason' = [w \in Conns |-> IF gone(w) THEN Null ELSE S.why[w]]
        /\ sa_isAlive' = [w \in Conns |-> IF gone(w) THEN FALSE ELSE S.alive[w]]
        /\ UNCHANGED cidVars

\* A frame of an open socket that is in a room: if (!ws.meta.room) is false.
SaFrame(ws) == sa_readyState[ws] = "OPEN" /\ ~sa_Falsy(sa_meta[ws].room)

\* wss.on('connection')
SaConnect(ws) ==
    /\ sa_readyState[ws] = "NONE"
    /\ SaCommit([sa_S0 EXCEPT !.rs[ws] = "OPEN",
                              !.meta[ws] = [room |-> Null, name |-> Null, active |-> FALSE],
                              !.why[ws] = Null,
                              !.alive[ws] = TRUE])

SaJoin(ws, room, name) ==
    /\ sa_readyState[ws] = "OPEN"
    /\ SaCommit(sa_onJoin(ws, room, name))

SaNoRoom(ws, t) ==
    /\ sa_readyState[ws] = "OPEN"
    /\ sa_Falsy(sa_meta[ws].room)
    /\ SaCommit(sa_onNoRoom(ws, t))

SaSetActive(ws, want) == SaFrame(ws) /\ SaCommit(sa_onSetActive(ws, want))

SaSignal(ws, t, val) == SaFrame(ws) /\ SaCommit(sa_onSignal(ws, t, val))

SaRing(ws, t) == SaFrame(ws) /\ SaCommit(sa_onRing(ws, t))

SaHangup(ws) == SaFrame(ws) /\ SaCommit(sa_onHangup(ws))

SaLeaveRoomMsg(ws) == SaFrame(ws) /\ SaCommit(sa_onLeaveRoom(ws))

\* JSON.parse throws, or a type no branch handles: nothing happens.
SaIgnored(ws) == sa_readyState[ws] = "OPEN" /\ SaCommit(sa_S0)

\* ws.on('pong', heartbeat)
SaPong(ws) ==
    /\ sa_readyState[ws] = "OPEN"
    /\ SaCommit([sa_S0 EXCEPT !.alive[ws] = TRUE])

\* The client closes the channel: the socket leaves OPEN before 'close'.
SaChannelClosing(ws) ==
    /\ sa_readyState[ws] = "OPEN"
    /\ SaCommit([sa_S0 EXCEPT !.rs[ws] = "CLOSING"])

\* ws.on('error', () => leaveRoom(ws))
SaOnError(ws) ==
    /\ sa_readyState[ws] \in {"OPEN", "CLOSING"}
    /\ SaCommit([sa_onClose(ws) EXCEPT !.rs[ws] = "CLOSING"])

\* ws.on('close', () => leaveRoom(ws))
SaOnClose(ws) ==
    /\ sa_readyState[ws] \in {"OPEN", "CLOSING"}
    /\ SaCommit([sa_onClose(ws) EXCEPT !.rs[ws] = "CLOSED"])

\* wss.clients, in the order the sockets were accepted (here: by name).
SaClients ==
    SelectSeq(<<"a", "b", "c">>, LAMBDA w : sa_readyState[w] \in {"OPEN", "CLOSING"})

\* setInterval(() => wss.clients.forEach(...), 30000)
SaHeartbeat == SaClients # <<>> /\ SaCommit(sa_heartbeat(sa_S0, SaClients))

\* The clients of a run of the set-active server: three sockets in one room
\* under two names, or two sockets in two rooms under one name.
SaEnvs ==
    { Env(Conns, {"r1"}, NameInputs, SaSigInputs, FALSE),
      Env({"a", "b"}, RoomInputs, {"alice"}, {}, FALSE) }

SaInit == cidInit /\ env \in SaEnvs /\ saInit

SaNext ==
    \/ \E ws \in env.conns : SaConnect(ws)
    \/ \E ws \in env.conns, room \in env.rooms, name \in env.names : SaJoin(ws, room, name)
    \/ \E ws \in env.conns, t \in {"leave-room", "hangup"} : SaNoRoom(ws, t)
    \/ \E ws \in env.conns, want \in BOOLEAN : SaSetActive(ws, want)
    \/ \E ws \in env.conns, sig \in env.sigs : SaSignal(ws, sig[1], sig[2])
    \/ \E ws \in env.conns, t \in SaRingTypes : SaRing(ws, t)
    \/ \E ws \in env.conns : SaHangup(ws)
    \/ \E ws \in env.conns : SaLeaveRoomMsg(ws)
    \/ \E ws \in env.conns : SaIgnored(ws)
    \/ \E ws \in env.conns : SaPong(ws)
    \/ \E ws \in env.conns : SaChannelClosing(ws)
    \/ \E ws \in env.conns : SaOnError(ws)
    \/ \E ws \in env.conns : SaOnClose(ws)
    \/ SaHeartbeat

SpecSA == SaInit /\ [][SaNext]_vars

\* ------------------------------------------------- every step of a state
\* P holds of what every handler that can run in this state would do.
AllSteps(P(_)) ==
    /\ \A ws \in Conns, room \in RoomInputs, name \in NameInputs :
          readyState[ws] = "OPEN" => P(onJoin(ws, room, name))
    /\ \A ws \in Conns : (readyState[ws] = "OPEN" /\ ~Routed(ws)) => P(notInRoom(ws))
    /\ \A ws \in Conns : Frame(ws) =>
          /\ P(onInvite(ws, nextId))
          /\ P(onLeaveRoom(ws))
          /\ P(onUnknown(ws))
          /\ \A id \in 0..nextId :
                /\ P(onRingAck(ws, id))
                /\ P(onAccept(ws, id))
                /\ P(onDecline(ws, id))
                /\ P(onHangup(ws, id))
                /\ \A sig \in SigInputs : P(onSignal(ws, sig[1], id, sig[2]))
    /\ \A ws \in Conns : readyState[ws] \in {"OPEN", "CLOSING"} => P(onClose(ws))
    /\ \A id \in DOMAIN ringTimers : ringTimers[id].timer => P(ringTimeout(id))

\* One send() call: the frame f passed for the socket to.
Sent(to, f) == [to |-> to, wrote |-> (readyState[to] = "OPEN"), f |-> f]

\* The rooms with an Active Call.
Calling == {k \in DOMAIN rooms : rooms[k].activeCall.id # NoId}

\* ------------------------------------------------------------------- C1
\* In the send() calls of one step, every offer/answer/ice frame that reaches
\* a socket follows a start frame with the same call_id that reached it: in
\* this step, or in an earlier one (startSent).
Barrier(st) ==
    \A i \in DOMAIN st.o :
        (st.o[i].f.type \in SigTypes /\ st.o[i].wrote) =>
            \/ <<st.o[i].to, st.o[i].f.call_id>> \in startSent
            \/ \E j \in 1..(i - 1) :
                  /\ st.o[j].f.type = "start"
                  /\ st.o[j].wrote
                  /\ st.o[j].to = st.o[i].to
                  /\ st.o[j].f.call_id = st.o[i].f.call_id

\* An offer/answer/ice frame for a RINGING call is put at the end of its
\* Pending queue and nothing is sent.
RingingEnqueues ==
    \A ws \in Conns, id \in Ids, sig \in SigInputs :
        (Frame(ws) /\ Matches(ws, id) /\ ~CallOf(ws).started) =>
            LET st == onSignal(ws, sig[1], id, sig[2])
                k == meta[ws].room
            IN  /\ st.o = <<>>
                /\ Len(st.rooms[k].activeCall.pending) = Len(CallOf(ws).pending) + 1
                /\ SubSeq(st.rooms[k].activeCall.pending, 1, Len(CallOf(ws).pending))
                      = CallOf(ws).pending
                /\ st.rooms[k].activeCall.pending[Len(CallOf(ws).pending) + 1].f
                      = Forward(sig[1], id, sig[2])
                /\ ~st.rooms[k].activeCall.started

\* C1 (START barrier): no offer/answer/ice frame carrying call_id X reaches a
\* participant before start{X} has reached it, and a signaling frame received
\* while the call is RINGING is only enqueued, never sent.
C1_StartBarrier == AllSteps(Barrier) /\ RingingEnqueues

\* A RINGING call holds a buffered frame.
C1_Witness ==
    \E k \in Calling :
        /\ ~rooms[k].activeCall.started
        /\ Len(rooms[k].activeCall.pending) > 0

\* ------------------------------------------------------------------- C2
\* C2 (buffered flush): accepting a RINGING call passes to send() the start
\* frame of the caller, the start frame of the callee and then every buffered
\* frame once, in arrival order, each for the destination it was tagged with;
\* a frame is tagged, when it is buffered, for a participant other than its
\* sender; afterwards the Pending queue is empty.
C2_FlushInOrder ==
    \A ws \in Conns, id \in Ids :
        (Frame(ws) /\ Matches(ws, id) /\ ~CallOf(ws).started) =>
            LET c == CallOf(ws)
                st == onAccept(ws, id)
                after == st.rooms[meta[ws].room].activeCall
            IN  /\ Len(st.o) = 2 + Len(c.pending)
                /\ st.o[1] = Sent(c.caller, [type |-> "start", call_id |-> id,
                                              role |-> "initiator"])
                /\ st.o[2] = Sent(c.callee, [type |-> "start", call_id |-> id,
                                              role |-> "callee"])
                /\ \A i \in DOMAIN c.pending :
                      st.o[2 + i] = Sent(c.pending[i].to, c.pending[i].f)
                /\ after.pending = <<>>
                /\ after.started /\ after.state = "CONNECTING" /\ after.id = id
                /\ \A sig \in SigInputs :
                      LET q == onSignal(ws, sig[1], id, sig[2]).rooms[meta[ws].room]
                                   .activeCall.pending
                      IN  /\ q[Len(q)].to \in {c.caller, c.callee}
                          /\ q[Len(q)].to # ws

\* A RINGING call with two different buffered frames.
C2_Witness ==
    \E k \in Calling :
        /\ ~rooms[k].activeCall.started
        /\ Len(rooms[k].activeCall.pending) = 2
        /\ rooms[k].activeCall.pending[1] # rooms[k].activeCall.pending[2]
        /\ \E ws \in Conns : Frame(ws) /\ meta[ws].room = k

\* ------------------------------------------------------------------- C3
\* C3 (invite refusal): an invite routed to a room that has an Active Call is
\* answered busy{call-active}, and one routed to a room with no Active Call
\* and no member other than the sender busy{no-peer}; nothing else is sent, no
\* call is created and the rooms and the ring timers stay as they are.
C3_InviteRefusal ==
    \A ws \in Conns :
        Frame(ws) =>
            LET ro == rooms[meta[ws].room]
                st == onInvite(ws, nextId)
                busy(reason) ==
                    /\ st.o = <<[to |-> ws, wrote |-> TRUE,
                                 f |-> [type |-> "busy", reason |-> reason]]>>
                    /\ st.rooms = rooms
                    /\ st.rt = ringTimers
            IN  /\ ro.activeCall.id # NoId => busy("call-active")
                /\ (ro.activeCall.id = NoId /\ ToSet(ro.members) \subseteq {ws})
                      => busy("no-peer")

\* A member of a room with an Active Call can send invite, and so can the
\* only member of a room without one.
C3_Witness ==
    /\ \E ws \in Conns : Frame(ws) /\ CallOf(ws).id # NoId
    /\ \E ws \in Conns :
          /\ Frame(ws)
          /\ CallOf(ws).id = NoId
          /\ ToSet(rooms[meta[ws].room].members) = {ws}

\* ------------------------------------------------------------------- C4
\* C4 (successful invite): an invite routed to a room with no Active Call and
\* a member other than the sender creates a RINGING call (not started, empty
\* Pending) from the sender to another member under a call_id no earlier call
\* had, passes invite-ok for the caller and then ring{from: caller's name} for
\* the callee to send(), and arms the ring resend.
C4_InviteCreatesCall ==
    \A ws \in Conns :
        (Frame(ws) /\ CallOf(ws).id = NoId
                   /\ ~(ToSet(rooms[meta[ws].room].members) \subseteq {ws})) =>
            LET k == meta[ws].room
                st == onInvite(ws, nextId)
                call == st.rooms[k].activeCall
            IN  /\ call.id = nextId
                /\ call.id \notin ended \cup ActiveIds(rooms)
                /\ call.caller = ws
                /\ call.callee \in ToSet(rooms[k].members) \ {ws}
                /\ ~call.started /\ call.state = "RINGING" /\ call.pending = <<>>
                /\ st.o = <<Sent(ws, [type |-> "invite-ok", call_id |-> call.id]),
                            Sent(call.callee, [type |-> "ring", call_id |-> call.id,
                                               from |-> meta[ws].name])>>
                /\ call.id \in DOMAIN st.rt
                /\ st.rt[call.id].timer
                /\ st.rt[call.id].roomKey = k
                /\ \A r \in DOMAIN rooms \ {k} : st.rooms[r] = rooms[r]

\* A second call is RINGING in a room whose first call has ended.
C4_Witness ==
    \E k \in Calling :
        /\ rooms[k].activeCall.id = 2
        /\ rooms[k].activeCall.state = "RINGING"
        /\ ended = {1}
        /\ 2 \in DOMAIN ringTimers

\* ------------------------------------------------------------------- C5
\* C5 (participant membership): in every reachable state the caller and the
\* callee of a room's Active Call are two distinct connections and both are
\* members of that room.
C5_ParticipantsAreMembers ==
    \A k \in Calling :
        /\ rooms[k].activeCall.caller # rooms[k].activeCall.callee
        /\ {rooms[k].activeCall.caller, rooms[k].activeCall.callee}
              \subseteq ToSet(rooms[k].members)

\* ------------------------------------------------------------------- C6
\* C6 (departure ends the call): when the leave path runs for the caller or
\* the callee of a room's Active Call (leave-room, close, error), the slot of
\* that room is cleared and end{call_id, left} is passed to send() for every
\* remaining member; so no room keeps an Active Call with a participant whose
\* channel has closed.
C6_DepartureEndsCall ==
    /\ \A k \in Calling :
          /\ readyState[rooms[k].activeCall.caller] # "CLOSED"
          /\ readyState[rooms[k].activeCall.callee] # "CLOSED"
    /\ \A ws \in Conns, k \in Calling :
          (/\ readyState[ws] \in {"OPEN", "CLOSING"}
           /\ ws \in {rooms[k].activeCall.caller, rooms[k].activeCall.callee}) =>
              LET st == onClose(ws)
                  left == [type |-> "end", call_id |-> rooms[k].activeCall.id,
                           reason |-> "left"]
              IN  /\ k \in DOMAIN st.rooms => st.rooms[k].activeCall.id = NoId
                  /\ \A m \in ToSet(rooms[k].members) \ {ws} :
                        \E i \in DOMAIN st.o : st.o[i].to = m /\ st.o[i].f = left

\* ------------------------------------------------------------------- C7
\* The end frames of one step: each carries the id of a call this step ends,
\* which no earlier step ended, and the end frames of a call the step ends
\* are one for each member the room has at that moment, in member order.
EndOnce(st) ==
    /\ \A i \in DOMAIN st.o :
          st.o[i].f.type = "end" =>
              /\ st.o[i].f.call_id \in ActiveIds(rooms) \ ActiveIds(st.rooms)
              /\ st.o[i].f.call_id \notin ended
              /\ st.o[i].f.reason \in {"declined", "hangup", "left"}
              /\ st.o[i].wrote = (readyState[st.o[i].to] = "OPEN")
    /\ \A k \in Calling :
          rooms[k].activeCall.id \notin ActiveIds(st.rooms) =>
              LET X == rooms[k].activeCall.id
                  ends == SelectSeq(st.o, LAMBDA e : IF e.f.type = "end"
                                                     THEN e.f.call_id = X ELSE FALSE)
                  mem == IF k \in DOMAIN st.rooms THEN st.rooms[k].members ELSE <<>>
              IN  /\ Len(ends) = Len(mem)
                  /\ \A i \in DOMAIN ends : ends[i].to = mem[i]
                  /\ \A i, j \in DOMAIN ends : ends[i].f = ends[j].f

\* C7 (end broadcast): the step that ends a call passes exactly one end frame
\* with its call_id to send() for every connection that is a member of the
\* room at that moment (written when that socket is open), and no later step
\* sends an end frame with that call_id.
C7_EndBroadcast == AllSteps(EndOnce)

\* A call has ended and a call is active in a room of three members, one of
\* them no participant.
C7_Witness ==
    /\ ended # {}
    /\ \E k \in Calling :
          /\ Len(rooms[k].members) = 3
          /\ \E ws \in Conns : Frame(ws) /\ meta[ws].room = k

\* ------------------------------------------------------------------- C8
\* C8 (stale call_id drop): a ring-ack, accept, decline, hangup, offer, answer
\* or ice frame whose call_id is not the id of the Active Call of the room it
\* is routed to (an ended call's id, or any id when there is no call) makes no
\* send() call and leaves rooms, calls, Pending queues and ring timers as they
\* are.
C8_StaleDrop ==
    \A ws \in Conns, id \in 0..nextId :
        (Frame(ws) /\ (CallOf(ws).id = NoId \/ CallOf(ws).id # id)) =>
            LET dropped(st) == st.o = <<>> /\ st.rooms = rooms /\ st.rt = ringTimers
            IN  /\ dropped(onRingAck(ws, id))
                /\ dropped(onAccept(ws, id))
                /\ dropped(onDecline(ws, id))
                /\ dropped(onHangup(ws, id))
                /\ \A sig \in SigInputs : dropped(onSignal(ws, sig[1], id, sig[2]))

\* A room whose first call has ended has a second Active Call with an armed
\* ring timer, and an open socket is routed to it.
C8_Witness ==
    \E ws \in Conns :
        /\ Frame(ws)
        /\ CallOf(ws).id = 2
        /\ 1 \in ended
        /\ 2 \in DOMAIN ringTimers

\* ------------------------------------------------------------------- C9
\* C9 (ring resend): the timer re-sends ring at most RING_RETRY_MAX times for
\* a call; a ring the timer writes is for a call_id no ring-ack or accept was
\* processed for and that has not ended, whose participants have not closed,
\* and goes to the callee of the room's Active Call, which has that id and is
\* not started.
C9_RingResend ==
    /\ \A id \in DOMAIN resent : resent[id] <= RING_RETRY_MAX
    /\ \A id \in DOMAIN ringTimers :
          (/\ ringTimers[id].timer
           /\ ringTimeout(id).o # <<>>
           /\ ringTimeout(id).o[1].wrote) =>
              LET e == ringTimeout(id).o[1]
                  k == ringTimers[id].roomKey
              IN  /\ e.f.type = "ring" /\ e.f.call_id = id
                  /\ id \notin stopped \cup ended
                  /\ k \in Calling
                  /\ rooms[k].activeCall.id = id
                  /\ ~rooms[k].activeCall.started
                  /\ e.to = rooms[k].activeCall.callee
                  /\ readyState[rooms[k].activeCall.caller] # "CLOSED"
                  /\ readyState[rooms[k].activeCall.callee] # "CLOSED"

\* ------------------------------------------------------------------ C10
\* C10 (unique display names): right after a join with display name N into
\* room R exactly one member of R has the name N.
C10_UniqueNames ==
    \A ws \in Conns, room \in RoomInputs, name \in NameInputs :
        readyState[ws] = "OPEN" =>
            LET st == onJoin(ws, room, name)
                R == st.meta[ws].room
                N == st.meta[ws].name
            IN  Cardinality({m \in ToSet(st.rooms[R].members) : st.meta[m].name = N}) = 1

\* ------------------------------------------------------------------ C11
\* C11 (single room per connection): in every reachable state every
\* connection is in the member set of at most one room.
C11_SingleRoom ==
    \A ws \in Conns :
        Cardinality({k \in DOMAIN rooms : ws \in ToSet(rooms[k].members)}) <= 1

\* ------------------------------------------------------------------ C12
\* What one step does to the registry: every room it leaves in the registry
\* has a member, a room it inserts has exactly the joiner, and a room it
\* removes had at most the leaver.
RegistryStep(st) ==
    /\ \A k \in DOMAIN st.rooms : Len(st.rooms[k].members) >= 1
    /\ \A k \in DOMAIN st.rooms \ DOMAIN rooms : Len(st.rooms[k].members) = 1
    /\ \A k \in DOMAIN rooms \ DOMAIN st.rooms : Len(rooms[k].members) <= 1

\* C12 (no empty rooms): every room of the registry has at least one member;
\* a room enters the registry in the join that gives it its first member and
\* leaves it in the leave that takes its last one; no other handler inserts
\* or removes a room.
C12_NoEmptyRooms ==
    /\ \A k \in DOMAIN rooms : Len(rooms[k].members) >= 1
    /\ AllSteps(RegistryStep)
    /\ \A ws \in Conns, room \in RoomInputs, name \in NameInputs :
          readyState[ws] = "OPEN" =>
              /\ DOMAIN rooms \subseteq DOMAIN onJoin(ws, room, name).rooms
              /\ ws \in ToSet(onJoin(ws, room, name).rooms[
                                  onJoin(ws, room, name).meta[ws].room].members)
    /\ \A ws \in Conns :
          Frame(ws) =>
              /\ DOMAIN onLeaveRoom(ws).rooms \subseteq DOMAIN rooms
              /\ DOMAIN onInvite(ws, nextId).rooms = DOMAIN rooms
              /\ DOMAIN onUnknown(ws).rooms = DOMAIN rooms
              /\ \A id \in 0..nextId :
                    /\ DOMAIN onRingAck(ws, id).rooms = DOMAIN rooms
                    /\ DOMAIN onAccept(ws, id).rooms = DOMAIN rooms
                    /\ DOMAIN onDecline(ws, id).rooms = DOMAIN rooms
                    /\ DOMAIN onHangup(ws, id).rooms = DOMAIN rooms
                    /\ \A sig \in SigInputs :
                          DOMAIN onSignal(ws, sig[1], id, sig[2]).rooms = DOMAIN rooms
    /\ \A id \in DOMAIN ringTimers : DOMAIN ringTimeout(id).rooms = DOMAIN rooms

\* The room an open socket joined has been removed from the registry while
\* another room is still there.
C12_Witness ==
    /\ \E ws \in Conns :
          /\ readyState[ws] = "OPEN"
          /\ meta[ws].room # Null
          /\ meta[ws].room \notin DOMAIN rooms
    /\ DOMAIN rooms # {}

\* ------------------------------------------------------------------ C13
\* C13 (ring-ack idempotence): a ring-ack for a RINGING call for which a
\* ring-ack has already been processed is a no-op: no ringing frame, no
\* change of rooms or ring timers.
C13_RingAckIdempotent ==
    \A ws \in Conns, id \in Ids :
        (Frame(ws) /\ Matches(ws, id) /\ CallOf(ws).state = "RINGING"
                   /\ id \in stopped) =>
            /\ onRingAck(ws, id).o = <<>>
            /\ onRingAck(ws, id).rooms = rooms
            /\ onRingAck(ws, id).rt = ringTimers

\* ------------------------------------------------------------------ C14
\* C14 (leave-room idempotence): a leave-room frame of a member removes the
\* sender from its room and is answered with left; a leave-room frame of a
\* connection that is in no room changes nothing and is answered with left.
C14_LeaveRoomReplied ==
    \A ws \in Conns :
        readyState[ws] = "OPEN" =>
            LET st == inRoom(ws, onLeaveRoom(ws))
            IN  /\ \E i \in DOMAIN st.o : st.o[i].to = ws /\ st.o[i].f.type = "left"
                /\ \A k \in DOMAIN st.rooms : ws \notin ToSet(st.rooms[k].members)
                /\ (\A k \in DOMAIN rooms : ws \notin ToSet(rooms[k].members))
                      => st.rooms = rooms /\ st.rt = ringTimers

\* ------------------------------------------------------------------ C15
\* C15 (out-of-context frames): an invite, ring-ack, accept, decline, hangup,
\* offer, answer or ice frame of an open connection that is a member of no
\* room is answered with error{not in room} and changes no room, call or ring
\* timer.
C15_NotInRoom ==
    \A ws \in Conns :
        (/\ readyState[ws] = "OPEN"
         /\ \A k \in DOMAIN rooms : ws \notin ToSet(rooms[k].members)) =>
            LET refused(st) ==
                    /\ st.o = <<Sent(ws, [type |-> "error", msg |-> "not in room"])>>
                    /\ st.rooms = rooms
                    /\ st.rt = ringTimers
            IN  /\ refused(inRoom(ws, onInvite(ws, nextId)))
                /\ \A id \in 0..nextId :
                      /\ refused(inRoom(ws, onRingAck(ws, id)))
                      /\ refused(inRoom(ws, onAccept(ws, id)))
                      /\ refused(inRoom(ws, onDecline(ws, id)))
                      /\ refused(inRoom(ws, onHangup(ws, id)))
                      /\ \A sig \in SigInputs :
                            refused(inRoom(ws, onSignal(ws, sig[1], id, sig[2])))

\* ------------------------------------------------------------------ C16
\* C16 (call state machine): an Active Call is RINGING and not started or
\* CONNECTING and started; only accept moves it from RINGING to CONNECTING;
\* on a started call accept sends no start frame and decline neither ends the
\* call nor sends end{declined}, while hangup ends it with reason hangup.
C16_StateMachine ==
    \A ws \in Conns, id \in Ids :
        (Frame(ws) /\ Matches(ws, id)) =>
            LET c == CallOf(ws)
                k == meta[ws].room
                after(st) == st.rooms[k].activeCall
            IN  /\ \/ c.state = "RINGING" /\ ~c.started
                   \/ c.state = "CONNECTING" /\ c.started
                /\ after(onRingAck(ws, id)).state = c.state
                /\ \A sig \in SigInputs :
                      after(onSignal(ws, sig[1], id, sig[2])).state = c.state
                /\ ~c.started => after(onAccept(ws, id)).state = "CONNECTING"
                /\ c.started =>
                      /\ \A i \in DOMAIN onAccept(ws, id).o :
                            onAccept(ws, id).o[i].f.type # "start"
                      /\ after(onDecline(ws, id)).id = id
                      /\ \A i \in DOMAIN onDecline(ws, id).o :
                            onDecline(ws, id).o[i].f.type # "end"
                      /\ after(onHangup(ws, id)).id = NoId
                      /\ \A i \in DOMAIN onHangup(ws, id).o :
                            onHangup(ws, id).o[i].f.type = "end"
                               => onHangup(ws, id).o[i].f.reason = "hangup"

\* ------------------------------------------------------------------ C17
\* The frame the recipient of an offer, answer or ice frame is to get.
Payload(sig, id) ==
    IF sig[1] = "ice" THEN [type |-> "ice", call_id |-> id, candidate |-> sig[2]]
    ELSE [type |-> sig[1], call_id |-> id, sdp |-> sig[2]]

\* C17 (relay after START): an offer, answer or ice frame with the matching
\* call_id from a participant of a started call makes exactly one send() call,
\* in the same step, for the other participant, with the type, the call_id and
\* the sdp or candidate of the frame, and changes nothing; before the start
\* the same frame is buffered for the other participant, and the flush passes
\* every buffered frame to send() as it was buffered.
C17_RelayAfterStart ==
    /\ \A ws \in Conns, id \in Ids, sig \in SigInputs :
          (/\ Frame(ws) /\ Matches(ws, id)
           /\ ws \in {CallOf(ws).caller, CallOf(ws).callee}) =>
              LET c == CallOf(ws)
                  other == CHOOSE p \in {c.caller, c.callee} : p # ws
                  st == onSignal(ws, sig[1], id, sig[2])
                  q == st.rooms[meta[ws].room].activeCall.pending
              IN  /\ c.started =>
                        /\ st.o = <<Sent(other, Payload(sig, id))>>
                        /\ st.rooms = rooms
                        /\ st.rt = ringTimers
                  /\ ~c.started =>
                        /\ st.o = <<>>
                        /\ q[Len(q)] = [to |-> other, f |-> Payload(sig, id)]
    /\ \A ws \in Conns, id \in Ids :
          (Frame(ws) /\ Matches(ws, id) /\ ~CallOf(ws).started) =>
              LET flushed == SelectSeq(onAccept(ws, id).o,
                                       LAMBDA e : e.f.type \in SigTypes)
              IN  /\ Len(flushed) = Len(CallOf(ws).pending)
                  /\ \A i \in DOMAIN flushed :
                        /\ flushed[i].f = CallOf(ws).pending[i].f
                        /\ flushed[i].to = CallOf(ws).pending[i].to

\* A started call in a room with a third member, both participants able to
\* send.
C17_Witness ==
    \E k \in Calling :
        /\ rooms[k].activeCall.started
        /\ Len(rooms[k].members) = 3
        /\ Frame(rooms[k].activeCall.caller)
        /\ Frame(rooms[k].activeCall.callee)
        /\ meta[rooms[k].activeCall.caller].room = k
        /\ meta[rooms[k].activeCall.callee].room = k

\* ------------------------------------------------------------------ C18
\* C18 (peer-left on leave): when the leave path runs for a member of a room,
\* peer-left{name} with the leaver's display name is passed to send() for
\* every remaining member of that room.
C18_PeerLeft ==
    \A ws \in Conns :
        (/\ readyState[ws] \in {"OPEN", "CLOSING"}
         /\ Routed(ws)
         /\ ws \in ToSet(rooms[meta[ws].room].members)) =>
            \A m \in ToSet(rooms[meta[ws].room].members) \ {ws} :
                \E i \in DOMAIN onClose(ws).o :
                    /\ onClose(ws).o[i].to = m
                    /\ IF onClose(ws).o[i].f.type = "peer-left"
                       THEN onClose(ws).o[i].f.name = meta[ws].name
                       ELSE FALSE

\* ------------------------------------------------------------------ C19
\* C19 (join notifications): a join adds the connection to the named room,
\* passes room-state{room, peers} with the display names of the room's members
\* to send() for the joiner and peer-joined{name} for every other member.
C19_JoinNotifications ==
    \A ws \in Conns, room \in RoomInputs, name \in NameInputs :
        readyState[ws] = "OPEN" =>
            LET st == onJoin(ws, room, name)
                R == IF room = Null THEN "default" ELSE room
                N == IF name = Null THEN "peer" ELSE name
                mem == st.rooms[R].members
            IN  /\ ws \in ToSet(mem)
                /\ st.o[1] = Sent(ws, [type |-> "room-state", room |-> R,
                                       peers |-> [i \in DOMAIN mem |-> st.meta[mem[i]].name]])
                /\ \A m \in ToSet(mem) \ {ws} :
                      \E i \in DOMAIN st.o :
                          /\ st.o[i].to = m
                          /\ IF st.o[i].f.type = "peer-joined"
                             THEN st.o[i].f.name = N
                             ELSE FALSE

\* ------------------------------------------------------------------ C20
\* C20 (name-collision replace, set-active server): when an open socket A2
\* joins room R with a name N that an open member A1 of R holds, A1 is closed
\* with reason "replaced" and is no member of R after the join, A2 is the only
\* member of R named N, and every other remaining member is sent
\* peer-left{N} before peer-joined{N}.
C20_NameCollisionReplace ==
    \A A2 \in Conns, room \in RoomInputs, name \in NameInputs :
        LET R == IF room = Null THEN "" ELSE room
            N == IF name = Null THEN "peer" ELSE name
            held == {A1 \in ToSet(sa_roomSet(sa_S0, R)) \ {A2} :
                        sa_readyState[A1] = "OPEN" /\ sa_meta[A1].name = N}
            S == sa_onJoin(A2, room, name)
        IN  (sa_readyState[A2] = "OPEN" /\ held # {}) =>
                /\ \A A1 \in held :
                      /\ S.rs[A1] = "CLOSING"
                      /\ S.why[A1] = "replaced"
                      /\ A1 \notin ToSet(S.rooms[R])
                /\ {m \in ToSet(S.rooms[R]) : S.meta[m].name = N} = {A2}
                /\ \A m \in ToSet(S.rooms[R]) \ {A2} :
                      \E i, j \in DOMAIN S.o :
                          /\ i < j
                          /\ S.o[i] = [to |-> m, f |-> [type |-> "peer-left", name |-> N]]
                          /\ S.o[j] = [to |-> m, f |-> [type |-> "peer-joined", name |-> N]]

\* ------------------------------------------------------------------ C21
\* C21 (heartbeat reaping): a sweep terminates every client whose isAlive is
\* false, and the leave path that then runs for it leaves it in no room and
\* no Active Call (a call it was in ends with reason left); a client whose
\* isAlive is true is not terminated, has isAlive cleared and is pinged.
C21_HeartbeatReaping ==
    \A ws \in Clients :
        /\ isAlive[ws] =>
              /\ heartbeat.rs[ws] = readyState[ws]
              /\ ~heartbeat.alive[ws]
              /\ ws \in heartbeat.pinged
        /\ ~isAlive[ws] =>
              /\ heartbeat.rs[ws] = "CLOSING"
              /\ ws \notin heartbeat.pinged
              /\ \A k \in DOMAIN onClose(ws).rooms :
                    /\ ws \notin ToSet(onClose(ws).rooms[k].members)
                    /\ ws \notin {onClose(ws).rooms[k].activeCall.caller,
                                  onClose(ws).rooms[k].activeCall.callee}
              /\ \A k \in Calling :
                    ws \in {rooms[k].activeCall.caller, rooms[k].activeCall.callee} =>
                        \A m \in ToSet(rooms[k].members) \ {ws} :
                            \E i \in DOMAIN onClose(ws).o :
                                /\ onClose(ws).o[i].to = m
                                /\ onClose(ws).o[i].f =
                                      [type |-> "end", call_id |-> rooms[k].activeCall.id,
                                       reason |-> "left"]

\* ------------------------------------------------------------------ C22
\* C22 (unknown type): a frame of an unhandled type from an open connection
\* whose room lookup succeeds makes one send() call, error{unknown message
\* type} for the sender, and changes no room, call or ring timer.
C22_UnknownType ==
    \A ws \in Conns :
        Frame(ws) =>
            /\ onUnknown(ws).o =
                  <<[to |-> ws, wrote |-> TRUE,
                     f |-> [type |-> "error", msg |-> "unknown message type"]]>>
            /\ onUnknown(ws).rooms = rooms
            /\ onUnknown(ws).rt = ringTimers

\* A member of a room with an Active Call and two other members can send.
C22_Witness ==
    \E ws \in Conns :
        /\ Frame(ws)
        /\ ws \in ToSet(rooms[meta[ws].room].members)
        /\ CallOf(ws).id # NoId
        /\ Len(rooms[meta[ws].room].members) = 3

\* ------------------------------------------------------------------ C23
\* C23 (leave ordering): when a participant of the Active Call leaves by
\* leave-room while its channel is open, the end{call_id, left} broadcast
\* includes the leaver, which is still a member when the call is ended.
C23_LeaverGetsEnd ==
    \A ws \in Conns :
        (/\ Frame(ws)
         /\ ws \in ToSet(rooms[meta[ws].room].members)
         /\ CallOf(ws).id # NoId
         /\ ws \in {CallOf(ws).caller, CallOf(ws).callee}) =>
            \E i \in DOMAIN onLeaveRoom(ws).o :
                /\ onLeaveRoom(ws).o[i].to = ws
                /\ onLeaveRoom(ws).o[i].f =
                      [type |-> "end", call_id |-> CallOf(ws).id, reason |-> "left"]

\* ------------------------------------------------------------------ C24
\* The invite-ok and ring frames of one step carry the id of a call that has
\* not ended, in a room whose slot held no other call before the step, and
\* the step sends no end frame after them.
EndFirst(st) ==
    \A i \in DOMAIN st.o :
        st.o[i].f.type \in {"invite-ok", "ring"} =>
            /\ st.o[i].f.call_id \notin ended
            /\ \E k \in DOMAIN st.rooms :
                  /\ st.rooms[k].activeCall.id = st.o[i].f.call_id
                  /\ rooms[k].activeCall.id \in {NoId, st.o[i].f.call_id}
            /\ \A j \in DOMAIN st.o : st.o[j].f.type # "end"

\* C24 (end before re-invite): every call id the server gave out that is no
\* room's Active Call has ended, its end frames sent in the step that ended
\* it; invite-ok{Y} and ring{Y} are sent only in a room whose slot holds no
\* earlier call; and while clearActiveCall sends end{X}, X is still the
\* room's Active Call: the slot is set to null after the broadcast.
C24_EndBeforeReinvite ==
    /\ \A id \in 1..(nextId - 1) : id \in ended \/ id \in ActiveIds(rooms)
    /\ ended \cap ActiveIds(rooms) = {}
    /\ AllSteps(EndFirst)
    /\ \A k \in Calling, reason \in {"declined", "hangup", "left"} :
          LET steps == clearActiveCallSteps(St0, k, reason)
              told == {n \in DOMAIN steps :
                          \E i \in DOMAIN steps[n].o : steps[n].o[i].f.type = "end"}
              first == CHOOSE n \in told : \A m \in told : n <= m
          IN  /\ steps[Len(steps)].rooms[k].activeCall.id = NoId
              /\ told # {}
              /\ steps[first].rooms[k].activeCall.id = rooms[k].activeCall.id

\* A second call is the Active Call of a room of three members whose first
\* call has ended.
C24_Witness ==
    \E k \in Calling :
        /\ rooms[k].activeCall.id = 2
        /\ 1 \in ended
        /\ Len(rooms[k].members) = 3

\* ------------------------------------------------------------------ C25
\* C25 (pending/started invariant): an Active Call is RINGING and not started,
\* or CONNECTING and started with an empty Pending queue; an empty slot holds
\* no Pending queue.
C25_PendingStarted ==
    \A k \in DOMAIN rooms :
        LET c == rooms[k].activeCall
        IN  IF c.id = NoId THEN c = NoCall
            ELSE \/ c.state = "RINGING" /\ ~c.started
                 \/ c.state = "CONNECTING" /\ c.started /\ c.pending = <<>>

\* A call is CONNECTING in a run whose clients send offer, answer and ice
\* before the accept.
C25_Witness ==
    /\ Cardinality(env.sigs) = 3
    /\ \E k \in Calling :
          /\ rooms[k].activeCall.state = "CONNECTING"
          /\ <<rooms[k].activeCall.caller, rooms[k].activeCall.id>> \in startSent

\* ------------------------------------------------------------------ C26
\* C26 (role authority): a ring-ack, accept or decline with the matching
\* call_id from a connection that is not the callee makes no send() call and
\* changes nothing, and a hangup with the matching call_id from a connection
\* that is neither caller nor callee does not end the call.
C26_RoleAuthority ==
    \A ws \in Conns, id \in Ids :
        (Frame(ws) /\ Matches(ws, id)) =>
            LET ignored(st) == st.o = <<>> /\ st.rooms = rooms /\ st.rt = ringTimers
            IN  /\ ws # CallOf(ws).callee =>
                      /\ ignored(onRingAck(ws, id))
                      /\ ignored(onAccept(ws, id))
                      /\ ignored(onDecline(ws, id))
                /\ ws \notin {CallOf(ws).caller, CallOf(ws).callee} =>
                      onHangup(ws, id).rooms[meta[ws].room].activeCall.id = id

\* ------------------------------------------------------------------ C27
\* C27 (non-participant signaling): an offer, answer or ice frame with the
\* Active Call's call_id from a connection that is neither its caller nor its
\* callee makes no send() call and leaves the Pending queue as it is.
C27_NonParticipantSignal ==
    \A ws \in Conns, id \in Ids, sig \in SigInputs :
        (/\ Frame(ws) /\ Matches(ws, id)
         /\ ws \notin {CallOf(ws).caller, CallOf(ws).callee}) =>
            /\ onSignal(ws, sig[1], id, sig[2]).o = <<>>
            /\ onSignal(ws, sig[1], id, sig[2]).rooms = rooms

\* ------------------------------------------------------------------ C28
\* Every end frame of a step carries one of the reasons declined, hangup, left.
EndReasons(st) ==
    \A i \in DOMAIN st.o :
        st.o[i].f.type = "end" => st.o[i].f.reason \in {"declined", "hangup", "left"}

\* The step ends no call.
KeepsCalls(st) == ActiveIds(rooms) \subseteq ActiveIds(st.rooms)

\* The resend budget of call id is used up: RING_RETRY_MAX tries, no timer armed.
Exhausted(id) ==
    /\ id \in DOMAIN ringTimers
    /\ ringTimers[id].tries = RING_RETRY_MAX
    /\ ~ringTimers[id].timer

C29_RegistryHygiene ==
    /\ \A id \in DOMAIN ringTimers :
          \E k \in Calling : rooms[k].activeCall.id = id /\ ~rooms[k].activeCall.started
    /\ \A ws \in Conns, id \in Ids :
          (Frame(ws) /\ Matches(ws, id)) =>
              /\ id \notin DOMAIN onRingAck(ws, id).rt
              /\ id \notin DOMAIN onAccept(ws, id).rt
              /\ id \notin DOMAIN onDecline(ws, id).rt
              /\ id \notin DOMAIN onHangup(ws, id).rt
    /\ \A k \in Calling, ws \in Conns :
          ws \in {rooms[k].activeCall.caller, rooms[k].activeCall.callee} =>
              /\ Frame(ws) => rooms[k].activeCall.id \notin DOMAIN onLeaveRoom(ws).rt
              /\ readyState[ws] \in {"OPEN", "CLOSING"}
                    => rooms[k].activeCall.id \notin DOMAIN onClose(ws).rt
====
